---- MODULE Spec2Model ----
(***************************************************************************)
(* The content-tree resolver of modules/yaml/yaml_handler.py:              *)
(* YamlConfig.validate, YamlFileHandler.load_yaml_file and                 *)
(* YamlDataTreeHandler (_data_node_create, data_tree_list_init).           *)
(*                                                                         *)
(* One resolution run is followed call by call: data_tree_list_init walks  *)
(* file_tree.children, _data_node_create is entered for a file node        *)
(* (a frame is pushed on `stack`) and left again (the frame is popped and  *)
(* the node is attached and appended).  An exception unwinds every frame   *)
(* in one step, being re-wrapped at each of them.                          *)
(***************************************************************************)
EXTENDS Integers, Sequences, FiniteSets, TLC

\* ------------------------------------------------------------------ bounds
NumPages == 2
MaxDepthBound == 2

\* ------------------------------------------------------- program constants
\* max_depth: int = 1000
DEFAULT_MAX_DEPTH == 1000
TEMPLATE_PATH == "TEMPLATE_PATH"
CHILDREN_PATH == "CHILDREN_PATH"

\* ------------------------------------------------------------ the file tree
\* The root directory as file_tree_init scans it: one index document, one
\* sub-directory and the page documents, in the provider's order.
IndexName == "index.yaml"
DirName == "page-assets"
PageNames == <<"page-1.yaml", "page-2.yaml", "page-3.yaml", "page-4.yaml">>
AllChildren == <<IndexName, DirName>> \o SubSeq(PageNames, 1, NumPages)

\* isinstance(node, FileNode)
IsFileNode(n) == n # DirName

Range(s) == {s[i] : i \in 1..Len(s)}
FilesOf(children) == {n \in Range(children) : IsFileNode(n)}

\* A pattern matches a node's name: an exact name, or the glob "page-*".
Matches(pattern, name) ==
    \/ pattern = name
    \/ pattern = "page-*" /\ name \in ({DirName} \cup Range(PageNames))

\* ------------------------------------------------------------ the documents
\* What a file holds: parse is "ioerror" (open/parse fails), "none"
\* (safe_load returns None) or "mapping"; a mapping has a key set and, under
\* the children key, a value of type str, list or int.
StrPatterns == {"", "page-*", IndexName, PageNames[1]}
ListEntries == {"", PageNames[1]}
ListPatterns ==
    {<<>>} \cup {<<p>> : p \in ListEntries}
           \cup {<<p, q>> : p \in ListEntries, q \in ListEntries}

Document(parse, keys, ctype, cstr, clist) ==
    [parse |-> parse, keys |-> keys, ctype |-> ctype, cstr |-> cstr, clist |-> clist]

BothKeys == {TEMPLATE_PATH, CHILDREN_PATH, "title"}
DocSet ==
    {Document("ioerror", {}, "str", "", <<>>),
     Document("none", {}, "str", "", <<>>),
     Document("mapping", {"title"}, "str", "", <<>>),
     Document("mapping", {CHILDREN_PATH, "title"}, "str", "", <<>>),
     Document("mapping", {TEMPLATE_PATH, "title"}, "str", "", <<>>),
     Document("mapping", BothKeys, "int", "", <<>>)}
    \cup {Document("mapping", BothKeys, "str", p, <<>>) : p \in StrPatterns}
    \cup {Document("mapping", BothKeys, "list", "", l) : l \in ListPatterns}

VARIABLES
    docs,            \* the documents on disk, by file name
    tree_children,   \* file_tree.children
    options,         \* the mapping handed to the configuration
    config,          \* self.config
    pc,              \* "init", "running", "done", "failed"
    top_idx,         \* position of data_tree_list_init's loop
    stack,           \* the active _data_node_create frames, outermost first
    data_tree_list,  \* self.data_tree_list
    next_oid,        \* identity of the next DataNode object
    lookups,         \* the find_nodes_by_path calls issued: <<file, pattern>>
    error            \* the exception that left data_tree_list_init

vars == <<docs, tree_children, options, config, pc, top_idx, stack,
          data_tree_list, next_oid, lookups, error>>

\* ------------------------------------------------------------ configuration
\* The YamlConfig dataclass: the generated constructor takes max_depth.
YamlConfig(max_depth) == [max_depth |-> max_depth]

Options(has_root_path, root_exists, has_max_depth, max_depth) ==
    [has_root_path |-> has_root_path, root_exists |-> root_exists,
     has_max_depth |-> has_max_depth, max_depth |-> max_depth]

\* YamlConfig.validate: root_path must be given and exist; the object is
\* built from root_path, file_pattern, encoding and the two preserved keys.
\* max_depth is not handed to cls(...), so the field keeps its default.
validate(opts) ==
    IF ~opts.has_root_path
    THEN [raised |-> TRUE, cls |-> "YamlConfigError", config |-> YamlConfig(DEFAULT_MAX_DEPTH)]
    ELSE IF ~opts.root_exists
    THEN [raised |-> TRUE, cls |-> "YamlPathError", config |-> YamlConfig(DEFAULT_MAX_DEPTH)]
    ELSE [raised |-> FALSE, cls |-> "", config |-> YamlConfig(DEFAULT_MAX_DEPTH)]

\* ------------------------------------------------------------------ errors
NoError ==
    [cls |-> "", error_type |-> "", key |-> "", path |-> "", origin |-> "", wraps |-> <<>>]

YamlLoadError(path) ==
    [cls |-> "YamlLoadError", error_type |-> "load_error", key |-> "",
     path |-> path, origin |-> path, wraps |-> <<>>]

missing_key(key, path) ==
    [cls |-> "YamlStructureError", error_type |-> "missing_key", key |-> key,
     path |-> path, origin |-> path, wraps |-> <<>>]

max_depth_exceeded(max_depth, name) ==
    [cls |-> "YamlStructureError", error_type |-> "max_depth_exceeded", key |-> "",
     path |-> name, origin |-> name, wraps |-> <<>>]

\* Mutant: the handler re-raises the exception as it caught it.
WrapChildError_Bare(e, matching_file) == e

\* except YamlError as e: raise YamlStructureError(e.error_type,
\*     "Error processing child <name>: <e>", <child path>) from e
WrapChildError(e, matching_file) ==
    [cls |-> "YamlStructureError", error_type |-> e.error_type, key |-> e.key,
     path |-> matching_file, origin |-> e.origin, wraps |-> <<matching_file>> \o e.wraps]

\* ------------------------------------------------------------------ loader
EmptyData == [keys |-> {}, ctype |-> "str", cstr |-> "", clist |-> <<>>]

\* YamlFileHandler.load_yaml_file: IOError / YAMLError become YamlLoadError,
\* None becomes {}, anything else is returned.
load_yaml_file(yaml_path) ==
    LET d == docs[yaml_path] IN
    IF d.parse = "ioerror"
    THEN [raised |-> TRUE, data |-> EmptyData]
    ELSE IF d.parse = "none"
    THEN [raised |-> FALSE, data |-> EmptyData]
    ELSE [raised |-> FALSE,
          data |-> [keys |-> d.keys, ctype |-> d.ctype, cstr |-> d.cstr, clist |-> d.clist]]

\* ------------------------------------------------- filesystem tree provider
\* DirectoryNode.find_nodes_by_path on the root directory: the nodes whose
\* name matches, files and directories alike, in tree order.
find_nodes_by_path(pattern) ==
    SelectSeq(tree_children, LAMBDA n : Matches(pattern, n))

\* ------------------------------------------------------- _data_node_create
\* Mutants of the depth check: the bound taken one too low, and no check.
DepthExceeded_OffByOne(depth, max_depth) == depth >= max_depth
DepthExceeded_Never(depth, max_depth) == FALSE

\* if depth > self.config.max_depth
DepthExceeded(depth, max_depth) == depth > max_depth

\* Mutant: the truth test of the loaded data left out.
IsLoaded_Always(data) == TRUE

\* if data:
IsLoaded(data) == data.keys # {}

\* Mutant: only the template key is checked.
FirstMissingKey_TemplateOnly(data) ==
    IF TEMPLATE_PATH \notin data.keys THEN TEMPLATE_PATH ELSE ""

\* The key checks, template key first.
FirstMissingKey(data) ==
    IF TEMPLATE_PATH \notin data.keys THEN TEMPLATE_PATH
    ELSE IF CHILDREN_PATH \notin data.keys THEN CHILDREN_PATH
    ELSE ""

\* children_path == "" becomes []; a list is walked as it is; a non-empty
\* string is the single pattern; any other value takes neither branch.
ChildPatterns(data) ==
    IF data.ctype = "str" /\ data.cstr = "" THEN <<>>
    ELSE IF data.ctype = "list" THEN data.clist
    ELSE IF data.ctype = "str" THEN <<data.cstr>>
    ELSE <<>>

\* Mutant: empty patterns are looked up like any other.
SkipPattern_Never(pattern) == FALSE

\* if not pattern: continue
SkipPattern(pattern) == pattern = ""

\* DataNode(data=data, name=file_node.name)
DataNode(oid, name, data) ==
    [oid |-> oid, name |-> name, data |-> data, children |-> <<>>]

\* data_node._node.add_child(child_node._node)
add_child(node, child) == [node EXCEPT !.children = Append(@, child)]

\* child_node not in self.data_tree_list: DataNode defines no __eq__, so the
\* list compares the objects themselves.
NotInList(node, list) == \A i \in 1..Len(list) : list[i].oid # node.oid

\* Mutant: a resolved child is attached but not appended.
AppendChild_Dropped(list, node) == list

\* if child_node not in self.data_tree_list: self.data_tree_list.append(child_node)
AppendChild(list, node) == IF NotInList(node, list) THEN Append(list, node) ELSE list

\* self.data_tree_list.append(data_node)
AppendTopLevel(list, node) == Append(list, node)

\* Mutant: the error handler leaves the list as it is.
ClearedList_Kept(list) == list

\* except YamlError: self.data_tree_list = []
ClearedList(list) == <<>>

Frame(file_node, depth, data_node, patterns) ==
    [file_node |-> file_node, depth |-> depth, data_node |-> data_node,
     patterns |-> patterns, matches |-> <<>>]

NoFrame == Frame("", 0, DataNode(0, "", EmptyData), <<>>)

\* The body of _data_node_create up to the loops over the patterns: the depth
\* check, the load, the key checks and the choice of the patterns to walk.
EnterNode(file_node, depth) ==
    IF DepthExceeded(depth, config.max_depth)
    THEN [raised |-> TRUE, error |-> max_depth_exceeded(config.max_depth, file_node),
          frame |-> NoFrame]
    ELSE LET l == load_yaml_file(file_node) IN
         IF l.raised
         THEN [raised |-> TRUE, error |-> YamlLoadError(file_node), frame |-> NoFrame]
         ELSE IF ~IsLoaded(l.data)
         THEN [raised |-> TRUE, error |-> YamlLoadError(file_node), frame |-> NoFrame]
         ELSE IF FirstMissingKey(l.data) # ""
         THEN [raised |-> TRUE, error |-> missing_key(FirstMissingKey(l.data), file_node),
               frame |-> NoFrame]
         ELSE [raised |-> FALSE, error |-> NoError,
               frame |-> Frame(file_node, depth, DataNode(next_oid, file_node, l.data),
                               ChildPatterns(l.data))]

\* The loops over the patterns and over each pattern's matches, run on from
\* where the frame stands to the next match that is a FileNode: empty
\* patterns are skipped, every other pattern is looked up.
RECURSIVE NextMatch(_, _, _, _)
NextMatch(file_node, patterns, matches, log) ==
    IF matches # <<>>
    THEN IF IsFileNode(Head(matches))
         THEN [found |-> TRUE, matching_file |-> Head(matches), patterns |-> patterns,
               matches |-> Tail(matches), log |-> log]
         ELSE NextMatch(file_node, patterns, Tail(matches), log)
    ELSE IF patterns # <<>>
    THEN IF SkipPattern(Head(patterns))
         THEN NextMatch(file_node, Tail(patterns), <<>>, log)
         ELSE NextMatch(file_node, Tail(patterns), find_nodes_by_path(Head(patterns)),
                        log \cup {<<file_node, Head(patterns)>>})
    ELSE [found |-> FALSE, matching_file |-> "", patterns |-> <<>>, matches |-> <<>>,
          log |-> log]

\* An exception raised while `child` is being created under the frames of
\* `frames`: each frame, innermost first, wraps it with the child it was
\* processing.
RECURSIVE Unwind(_, _, _)
Unwind(e, frames, child) ==
    IF frames = <<>> THEN e
    ELSE Unwind(WrapChildError(e, child), SubSeq(frames, 1, Len(frames) - 1),
                frames[Len(frames)].file_node)

Top == stack[Len(stack)]
Step == NextMatch(Top.file_node, Top.patterns, Top.matches, lookups)

\* ------------------------------------------------------------------- Init
TreeSet == {SubSeq(AllChildren, 1, k) : k \in 0..Len(AllChildren)}

\* __init__ up to the call of data_tree_list_init: self._node_paths = [],
\* file_tree_init(), self.data_tree_list = [].
InitHandler ==
    /\ tree_children \in TreeSet
    /\ docs \in [FilesOf(tree_children) -> DocSet]
    /\ pc = "init"
    /\ top_idx = 1
    /\ stack = <<>>
    /\ data_tree_list = <<>>
    /\ next_oid = 1
    /\ lookups = {}
    /\ error = NoError

\* The configuration object assembled with the dataclass constructor, with
\* max_depth given.
Init ==
    /\ \E m \in 0..MaxDepthBound :
          /\ options = Options(TRUE, TRUE, TRUE, m)
          /\ config = YamlConfig(m)
    /\ InitHandler

\* ------------------------------------------------------------------ actions
\* data_tree_list_init, up to its loop: reset, return on an empty tree.
DataTreeListInit ==
    /\ pc = "init"
    /\ data_tree_list' = <<>>
    /\ pc' = IF Len(tree_children) = 0 THEN "done" ELSE "running"
    /\ UNCHANGED <<docs, tree_children, options, config, top_idx, stack,
                   next_oid, lookups, error>>

\* An exception leaves _data_node_create(child, ...): it is wrapped by every
\* active frame, data_tree_list_init clears its state and re-raises.
Raise(e, child) ==
    /\ error' = Unwind(e, stack, child)
    /\ data_tree_list' = ClearedList(data_tree_list)
    /\ stack' = <<>>
    /\ pc' = "failed"
    /\ UNCHANGED <<top_idx, next_oid>>

\* _data_node_create(child, depth) is entered from the frames `below`.
Enter(child, depth, below) ==
    LET r == EnterNode(child, depth) IN
    IF r.raised
    THEN Raise(r.error, child)
    ELSE /\ stack' = Append(below, r.frame)
         /\ next_oid' = next_oid + 1
         /\ UNCHANGED <<pc, top_idx, data_tree_list, error>>

\* The loop of data_tree_list_init meets a child that is no FileNode.
LoopSkip ==
    /\ pc = "running" /\ stack = <<>>
    /\ top_idx <= Len(tree_children)
    /\ ~IsFileNode(tree_children[top_idx])
    /\ top_idx' = top_idx + 1
    /\ UNCHANGED <<docs, tree_children, options, config, pc, stack,
                   data_tree_list, next_oid, lookups, error>>

\* The loop of data_tree_list_init calls _data_node_create(child, 0).
LoopCall ==
    /\ pc = "running" /\ stack = <<>>
    /\ top_idx <= Len(tree_children)
    /\ IsFileNode(tree_children[top_idx])
    /\ Enter(tree_children[top_idx], 0, <<>>)
    /\ UNCHANGED <<docs, tree_children, options, config, lookups>>

\* The loop of data_tree_list_init is over.
LoopDone ==
    /\ pc = "running" /\ stack = <<>>
    /\ top_idx > Len(tree_children)
    /\ pc' = "done"
    /\ UNCHANGED <<docs, tree_children, options, config, top_idx, stack,
                   data_tree_list, next_oid, lookups, error>>

\* The innermost frame reaches its next matching file and calls
\* _data_node_create(matching_file, depth + 1).
ChildCall ==
    /\ pc = "running" /\ stack # <<>>
    /\ Len(stack) < MaxDepthBound + 2
    /\ Step.found
    /\ lookups' = Step.log
    /\ Enter(Step.matching_file, Top.depth + 1,
             [stack EXCEPT ![Len(stack)].patterns = Step.patterns,
                           ![Len(stack)].matches = Step.matches])
    /\ UNCHANGED <<docs, tree_children, options, config>>

\* The innermost frame has no match left and returns its data_node: the
\* calling frame attaches and appends it, the top-level loop appends it.
Return ==
    /\ pc = "running" /\ stack # <<>>
    /\ ~Step.found
    /\ lookups' = Step.log
    /\ IF Len(stack) > 1
       THEN /\ stack' = [SubSeq(stack, 1, Len(stack) - 1) EXCEPT
                            ![Len(stack) - 1].data_node = add_child(@, Top.data_node)]
            /\ data_tree_list' = AppendChild(data_tree_list, Top.data_node)
            /\ UNCHANGED top_idx
       ELSE /\ stack' = <<>>
            /\ data_tree_list' = AppendTopLevel(data_tree_list, Top.data_node)
            /\ top_idx' = top_idx + 1
    /\ UNCHANGED <<docs, tree_children, options, config, pc, next_oid, error>>

Next ==
    \/ DataTreeListInit
    \/ LoopSkip
    \/ LoopCall
    \/ LoopDone
    \/ ChildCall
    \/ Return

Spec == Init /\ [][Next]_vars

\* --------------------------------------------- configuration by validate
OptionSet ==
    {Options(FALSE, FALSE, FALSE, 0), Options(TRUE, FALSE, FALSE, 0),
     Options(TRUE, TRUE, FALSE, 0)}
    \cup {Options(TRUE, TRUE, TRUE, m) : m \in 0..MaxDepthBound}

\* The files a document's children-reference reaches, when the document
\* resolves.
Refs(f) ==
    LET l == load_yaml_file(f) IN
    IF l.raised \/ ~IsLoaded(l.data) \/ FirstMissingKey(l.data) # "" THEN {}
    ELSE {n \in FilesOf(tree_children) :
            \E i \in 1..Len(ChildPatterns(l.data)) :
               /\ ~SkipPattern(ChildPatterns(l.data)[i])
               /\ Matches(ChildPatterns(l.data)[i], n)}

RECURSIVE ReachIn(_, _)
ReachIn(S, k) == IF k = 0 THEN S ELSE ReachIn(S \cup UNION {Refs(f) : f \in S}, k - 1)

\* Some document reaches itself through children-references.
Cyclic == \E f \in FilesOf(tree_children) : f \in ReachIn(Refs(f), Len(tree_children))

\* Every document on disk loads and holds both keys.
AllDocsValid ==
    \A f \in FilesOf(tree_children) :
        LET l == load_yaml_file(f) IN
        ~l.raised /\ IsLoaded(l.data) /\ FirstMissingKey(l.data) = ""

\* YamlDataTreeHandler.__init__: self.config = YamlConfig.validate(config);
\* a configuration error ends the construction.  The trees drawn here hold no
\* reference cycle: under the default bound a cycle is 1000 frames deep.
InitValidate ==
    /\ tree_children \in TreeSet
    /\ docs \in [FilesOf(tree_children) -> DocSet]
    /\ ~Cyclic
    /\ options \in OptionSet
    /\ config = validate(options).config
    /\ pc = IF validate(options).raised THEN "config_error" ELSE "init"
    /\ top_idx = 1
    /\ stack = <<>>
    /\ data_tree_list = <<>>
    /\ next_oid = 1
    /\ lookups = {}
    /\ error = NoError

SpecValidate == InitValidate /\ [][Next]_vars

\* ------------------------------------------------------ runs to the end
\* The documents whose children-reference, where there is one, is a single
\* string: enough for every kind of failure and for reference cycles.
LiveDocSet == {d \in DocSet : d.ctype = "str"}

InitLive ==
    /\ Init
    /\ \A f \in DOMAIN docs : docs[f] \in LiveDocSet

\* The run is one synchronous call: it moves on whenever it can.
FairSpec == InitLive /\ [][Next]_vars /\ WF_vars(Next)

\* ------------------------------------------------------- derived notions
Terminated == pc \in {"done", "failed"}

RECURSIVE SubNodes(_)
SubNodes(node) == {node} \cup UNION {SubNodes(node.children[i]) : i \in 1..Len(node.children)}

\* Every content node that exists: in the flattened list, in a frame, or
\* attached below one of those.
ContentNodes ==
    UNION ({SubNodes(data_tree_list[i]) : i \in 1..Len(data_tree_list)}
           \cup {SubNodes(stack[i].data_node) : i \in 1..Len(stack)})

RECURSIVE NodeHeight(_)
NodeHeight(node) ==
    IF node.children = <<>> THEN 0
    ELSE 1 + CHOOSE h \in {NodeHeight(node.children[i]) : i \in 1..Len(node.children)} :
                 \A i \in 1..Len(node.children) : NodeHeight(node.children[i]) <= h

\* Position of the first entry of the flattened list with this identity.
FirstIndex(name) ==
    CHOOSE i \in 1..Len(data_tree_list) :
        /\ data_tree_list[i].name = name
        /\ \A j \in 1..(i - 1) : data_tree_list[j].name # name

InList(name) == \E i \in 1..Len(data_tree_list) : data_tree_list[i].name = name

\* ------------------------------------------------------------------ claims

\* C1: after a successful run the flattened list holds no two content nodes
\* with the same identity (file name).
C1_NoDuplicateIdentity ==
    pc = "done" =>
        \A i \in 1..Len(data_tree_list) : \A j \in 1..Len(data_tree_list) :
            i # j => data_tree_list[i].name # data_tree_list[j].name

\* C2: a document whose children-reference is neither a string nor a list
\* never becomes a content node: resolving it fails.
C2_UnsupportedShapeFails ==
    pc = "done" => \A n \in ContentNodes : n.data.ctype \in {"str", "list"}

C4_AllOrNothing ==
    /\ pc = "failed" => data_tree_list = <<>> /\ error # NoError
    /\ pc = "done" => error = NoError
    /\ data_tree_list # <<>> => pc \in {"running", "done"}

\* A run that failed at a top-level document after earlier nodes had been
\* created and appended.
C4_Witness ==
    /\ pc = "failed"
    /\ error.wraps = <<>>
    /\ next_oid > 2
    /\ data_tree_list = <<>>

\* C5: a max_depth supplied in the options handed to validate bounds the
\* recursion: no successful run holds a node nested deeper than it.
C5_SuppliedMaxDepthEnforced ==
    (pc = "done" /\ options.has_max_depth) =>
        \A i \in 1..Len(data_tree_list) : NodeHeight(data_tree_list[i]) <= options.max_depth

\* C6: a node is entered exactly when its depth is at most max_depth: frames
\* stand at depths 0..max_depth, a depth error names a node at depth
\* max_depth + 1, every other error comes from a node within the bound (the
\* depth check precedes the load), and a successful run holds no deeper node.
C6_DepthBoundary ==
    /\ \A i \in 1..Len(stack) :
          stack[i].depth = i - 1 /\ stack[i].depth <= config.max_depth
    /\ (pc = "failed" /\ error.error_type = "max_depth_exceeded") =>
          /\ Len(error.wraps) = config.max_depth + 1
          /\ error.origin = error.wraps[Len(error.wraps)]
          /\ error.cls = "YamlStructureError"
    /\ (pc = "failed" /\ error.error_type # "max_depth_exceeded") =>
          Len(error.wraps) <= config.max_depth
    /\ pc = "done" =>
          \A i \in 1..Len(data_tree_list) : NodeHeight(data_tree_list[i]) <= config.max_depth

\* A chain of two nested children (no cycle) resolved with max_depth = 1.
C6_Witness ==
    /\ pc = "failed"
    /\ error.error_type = "max_depth_exceeded"
    /\ config.max_depth = 1
    /\ ~Cyclic

LacksKey(f) ==
    /\ docs[f].parse = "mapping"
    /\ (TEMPLATE_PATH \notin docs[f].keys \/ CHILDREN_PATH \notin docs[f].keys)

\* C7: a document that lacks the template key or the children key never
\* becomes a content node and issues no lookup; entered within the depth
\* bound it fails the run with a missing-key structure error naming the key
\* (the template key when both are missing) and the document.
C7_MissingKeyFails ==
    /\ \A n \in ContentNodes : {TEMPLATE_PATH, CHILDREN_PATH} \subseteq n.data.keys
    /\ \A l \in lookups : ~LacksKey(l[1])
    /\ pc = "done" => \A f \in FilesOf(tree_children) : ~LacksKey(f)
    /\ (pc = "failed" /\ LacksKey(error.origin) /\ Len(error.wraps) <= config.max_depth) =>
          /\ error.cls = "YamlStructureError"
          /\ error.error_type = "missing_key"
          /\ error.key = IF TEMPLATE_PATH \notin docs[error.origin].keys
                         THEN TEMPLATE_PATH ELSE CHILDREN_PATH
    /\ (pc = "failed" /\ error.error_type = "missing_key") => LacksKey(error.origin)

\* A nested document that lacks both keys fails the run.
C7_Witness ==
    /\ pc = "failed"
    /\ error.error_type = "missing_key"
    /\ error.key = TEMPLATE_PATH
    /\ CHILDREN_PATH \notin docs[error.origin].keys
    /\ error.wraps # <<>>

\* C8: a document whose load fails or yields an empty mapping never becomes
\* a content node; entered within the depth bound it fails the run with a
\* load error naming the document.
C8_EmptyLoadFails ==
    /\ \A n \in ContentNodes : n.data.keys # {}
    /\ pc = "done" => \A f \in FilesOf(tree_children) : docs[f].parse = "mapping"
    /\ (pc = "failed" /\ docs[error.origin].parse # "mapping"
          /\ Len(error.wraps) <= config.max_depth) =>
          /\ error.error_type = "load_error"
          /\ error.wraps = <<>> => (error.cls = "YamlLoadError" /\ error.path = error.origin)
    /\ (pc = "failed" /\ error.error_type = "load_error") =>
          docs[error.origin].parse # "mapping"

\* A nested document that parses to nothing fails the run.
C8_Witness ==
    /\ pc = "failed"
    /\ error.error_type = "load_error"
    /\ docs[error.origin].parse = "none"
    /\ error.wraps # <<>>

EmptyReference(data) ==
    \/ data.ctype = "str" /\ data.cstr = ""
    \/ data.ctype = "list" /\ \A i \in 1..Len(data.clist) : data.clist[i] = ""

\* C9: no lookup is issued for an empty pattern, every lookup is for a
\* pattern the document lists, and a document whose children-reference is
\* the empty string (or only empty entries) gets no child and calls nothing.
C9_EmptyReferenceNoLookup ==
    /\ \A l \in lookups :
          /\ l[2] # ""
          /\ \/ docs[l[1]].ctype = "str" /\ docs[l[1]].cstr = l[2]
             \/ docs[l[1]].ctype = "list" /\ l[2] \in Range(docs[l[1]].clist)
    /\ \A n \in ContentNodes : EmptyReference(n.data) => n.children = <<>>
    /\ \A i \in 1..Len(stack) :
          EmptyReference(stack[i].data_node.data) =>
              i = Len(stack) /\ stack[i].matches = <<>>

\* A successful run with a node whose list holds an empty entry and a
\* pattern, the matched child having the empty string as its reference.
C9_Witness ==
    /\ pc = "done"
    /\ \E i \in 1..Len(data_tree_list) :
          /\ data_tree_list[i].data.ctype = "list"
          /\ data_tree_list[i].data.clist = <<"", PageNames[1]>>
          /\ Len(data_tree_list[i].children) = 1
          /\ data_tree_list[i].children[1].data.ctype = "str"
          /\ data_tree_list[i].children[1].data.cstr = ""

RootKind(file_node, depth) ==
    IF depth > config.max_depth THEN "max_depth_exceeded"
    ELSE IF docs[file_node].parse # "mapping" THEN "load_error"
    ELSE "missing_key"

\* C11: when a call at depth d fails, the error that leaves the run has been
\* wrapped once by each of the d active calls, the wraps naming, outermost
\* first, the child each call was processing down to the faulting document;
\* the kind of the root cause is kept, the wrapped error is a structure
\* error carrying the outermost child, every call is left and nothing runs
\* after the failure.
C11_WrappedAtEachFrame ==
    [][/\ pc # "failed"
       /\ pc' = "failed" =>
            /\ Len(error'.wraps) = Len(stack)
            /\ \A i \in 1..(Len(stack) - 1) : error'.wraps[i] = stack[i + 1].file_node
            /\ error'.error_type = RootKind(error'.origin, Len(stack))
            /\ Len(stack) >= 1 =>
                  /\ error'.wraps[Len(stack)] = error'.origin
                  /\ error'.cls = "YamlStructureError"
                  /\ error'.path = error'.wraps[1]
            /\ stack' = <<>>
            /\ next_oid' = next_oid]_vars

\* A failure two calls deep, wrapped twice with two different children.
C11_Witness ==
    /\ pc = "failed"
    /\ Len(error.wraps) = 2
    /\ error.wraps[1] # error.wraps[2]
    /\ error.origin = error.wraps[2]
    /\ error.error_type = "max_depth_exceeded"

====
